---- MODULE Spec2Model ----
(***************************************************************************)
(* A model of poetry-templating's engine (src/poetry_templating).          *)
(*                                                                         *)
(* Text is a sequence of tokens.  A token is one character, except for the *)
(* five words the engine's regular expressions spell out in full, which    *)
(* are one token each: "templating: off", "templating: on",                *)
(* "templating: delete", "pyproject" and "env" (and an upper-case spelling *)
(* of the three directive words, for re.IGNORECASE), and for the manifest  *)
(* key "tool".                                                             *)
(*                                                                         *)
(* A path is a sequence of parts, each part a text.  An Optional value is  *)
(* a sequence of length 0 (None) or 1.                                     *)
(***************************************************************************)
EXTENDS Integers, Sequences, FiniteSets, TLC

VARIABLES
    include,    \* TemplatingEngine.include: list of glob patterns
    exclude,    \* TemplatingEngine.exclude: list of glob patterns
    fs,         \* the files on disk: absolute path -> content
    call,       \* the top-level call in progress and its arguments
    stack,      \* the activations of evaluate_string / RE_TEMPLATE_SLOT.sub
    ret,        \* Optional: the value a finished activation hands to its caller
    exc,        \* Optional: the exception that is propagating
    todo,       \* evaluate_and_replace: the files os.walk has not yielded yet
    count,      \* evaluate_and_replace: its counter
    outcome,    \* what the top-level call returned or raised
    heap        \* the attribute the Mixins replace, and each Mixin's `original`

vars == <<include, exclude, fs, call, stack, ret, exc, todo, count, outcome, heap>>

None == <<>>
Some(x) == <<x>>

\* No Mixin has been made.
NoMixins == <<>>

Pending == [status |-> "pending"]
Returned(v) == [status |-> "returned", value |-> v]
Raised(e) == [status |-> "raised", exc |-> e]

-----------------------------------------------------------------------------
(* Text helpers (Python str and re primitives).                            *)

\* \s of the re module, over the token alphabet.
IsSpace(c) == c \in {" ", "\n"}

\* str.lower(), one token at a time.
LowerTok(c) ==
    CASE c = "A" -> "a"
      [] c = "P" -> "p"
      [] c = "Y" -> "y"
      [] c = "TEMPLATING: OFF" -> "templating: off"
      [] c = "TEMPLATING: ON" -> "templating: on"
      [] c = "TEMPLATING: DELETE" -> "templating: delete"
      [] OTHER -> c

lower(s) == [i \in 1..Len(s) |-> LowerTok(s[i])]

\* A variant of split that keeps no empty last piece, as str.splitlines does.
RECURSIVE splitlines(_, _)
splitlines(s, sep) ==
    IF s = <<>> THEN <<>>
    ELSE IF \A i \in 1..Len(s) : s[i] # sep
    THEN <<s>>
    ELSE LET i == CHOOSE k \in 1..Len(s) :
                      s[k] = sep /\ \A j \in 1..(k - 1) : s[j] # sep
         IN  <<SubSeq(s, 1, i - 1)>> \o splitlines(SubSeq(s, i + 1, Len(s)), sep)

\* str.split(sep) for a one-token separator: empty pieces are kept.
RECURSIVE split(_, _)
split(s, sep) ==
    IF \A i \in 1..Len(s) : s[i] # sep
    THEN <<s>>
    ELSE LET i == CHOOSE k \in 1..Len(s) :
                      s[k] = sep /\ \A j \in 1..(k - 1) : s[j] # sep
         IN  <<SubSeq(s, 1, i - 1)>> \o split(SubSeq(s, i + 1, Len(s)), sep)

\* sep.join(parts)
RECURSIVE join(_, _)
join(parts, sep) ==
    IF parts = <<>> THEN <<>>
    ELSE IF Len(parts) = 1 THEN parts[1]
    ELSE parts[1] \o sep \o join(Tail(parts), sep)

\* str.strip("/"): every leading and trailing slash goes.
RECURSIVE strip_slashes(_)
strip_slashes(s) ==
    IF s # <<>> /\ Head(s) = "/" THEN strip_slashes(Tail(s))
    ELSE IF s # <<>> /\ s[Len(s)] = "/" THEN strip_slashes(SubSeq(s, 1, Len(s) - 1))
    ELSE s

\* pathlib's parsing of a pattern: empty parts and "." parts are dropped.
RECURSIVE SelectParts(_)
SelectParts(xs) ==
    IF xs = <<>> THEN <<>>
    ELSE IF Head(xs) = <<>> \/ Head(xs) = <<".">>
         THEN SelectParts(Tail(xs))
         ELSE <<Head(xs)>> \o SelectParts(Tail(xs))

-----------------------------------------------------------------------------
(* Path / glob utility: util.py, relative and matches_any.                 *)

\* TemplatingEngine.root, an absolute directory.
Root == << <<"r">> >>

IsPrefix(p, q) == Len(p) <= Len(q) /\ SubSeq(q, 1, Len(p)) = p

\* os.path.realpath without symbolic links: "." and "" parts go, ".." climbs
\* (and stays at "/" there).
RECURSIVE realpath_from(_, _)
realpath_from(done, parts) ==
    IF parts = <<>> THEN done
    ELSE IF Head(parts) = <<>> \/ Head(parts) = <<".">>
         THEN realpath_from(done, Tail(parts))
    ELSE IF Head(parts) = <<".", ".">>
         THEN realpath_from(IF done = <<>> THEN <<>>
                            ELSE SubSeq(done, 1, Len(done) - 1), Tail(parts))
    ELSE realpath_from(Append(done, Head(parts)), Tail(parts))

realpath(path) == realpath_from(<<>>, path)

\* relative(path, root): the parts below root when path is under it, otherwise
\* the absolute path, whose first pathlib part is the anchor "/".
relative(path, root) ==
    LET resolved == realpath(path)
    IN  IF IsPrefix(root, resolved)
        THEN SubSeq(resolved, Len(root) + 1, Len(resolved))
        ELSE << <<"/">> >> \o resolved

\* fnmatch.fnmatchcase on one path part: "*" any run, "?" any one character.
RECURSIVE fnmatchcase(_, _)
fnmatchcase(name, pat) ==
    IF pat = <<>> THEN name = <<>>
    ELSE IF Head(pat) = "*"
         THEN \/ fnmatchcase(name, Tail(pat))
              \/ name # <<>> /\ fnmatchcase(Tail(name), pat)
    ELSE IF name = <<>> THEN FALSE
    ELSE IF Head(pat) = "?" THEN fnmatchcase(Tail(name), Tail(pat))
    ELSE Head(pat) = Head(name) /\ fnmatchcase(Tail(name), Tail(pat))

\* PurePath.match with a pattern that has no anchor: the pattern's parts are
\* matched against the last parts of the path.
path_match(parts, pattern) ==
    LET pat == SelectParts(split(pattern, "/"))
        n == Len(parts)
        m == Len(pat)
    IN  /\ m <= n
        /\ \A k \in 1..m : fnmatchcase(parts[n - m + k], pat[k])

\* One pattern of matches_any: Path(path.as_posix().lower()).match(p.lower().strip("/"))
pattern_matches(path, p) ==
    path_match([i \in 1..Len(path) |-> lower(path[i])], strip_slashes(lower(p)))

matches_any(path, patterns) ==
    \E k \in 1..Len(patterns) : pattern_matches(path, patterns[k])

\* A variant of should_process that joins the two tests with "or", as
\* poetry_plugin_templating's engine does.
should_process_or(path, inc, exc_) ==
    LET rel == relative(path, Root)
    IN  matches_any(rel, inc) \/ matches_any(rel, exc_)

\* TemplatingEngine.should_process(path), for the engine's include / exclude.
should_process(path, inc, exc_) ==
    LET rel == relative(path, Root)
    IN  matches_any(rel, inc) /\ ~matches_any(rel, exc_)

-----------------------------------------------------------------------------
(* Structured-document traversal: util.py, traverse.                       *)
(* A Python value is a record: t is its type, items the (key, value) pairs *)
(* of a dict in insertion order or the elements of a list, v the text of a *)
(* str or the decimal digits of an int.                                    *)

PyDict(items) == [t |-> "dict", items |-> items, v |-> <<>>]
PyList(items) == [t |-> "list", items |-> items, v |-> <<>>]
PyStr(s) == [t |-> "str", items |-> <<>>, v |-> s]
PyInt(digits) == [t |-> "int", items |-> <<>>, v |-> digits]

Ok(v) == [ok |-> TRUE, value |-> v, error |-> "", msg |-> ""]
Err(type, msg) == [ok |-> FALSE, value |-> PyInt(<<"0">>), error |-> type, msg |-> msg]

Digits == {"0", "1", "2", "3"}
DigitVal(c) == CASE c = "0" -> 0 [] c = "1" -> 1 [] c = "2" -> 2 [] OTHER -> 3

RECURSIVE DigitsVal(_)
DigitsVal(s) ==
    IF s = <<>> THEN 0
    ELSE 10 * DigitsVal(SubSeq(s, 1, Len(s) - 1)) + DigitVal(s[Len(s)])

RECURSIVE strip_spaces(_)
strip_spaces(s) ==
    IF s # <<>> /\ IsSpace(Head(s)) THEN strip_spaces(Tail(s))
    ELSE IF s # <<>> /\ IsSpace(s[Len(s)]) THEN strip_spaces(SubSeq(s, 1, Len(s) - 1))
    ELSE s

\* int(step): surrounding whitespace, an optional sign, then digits.
\* Optional: None when Python raises ValueError.
int(step) ==
    LET s == strip_spaces(step)
        body == IF s # <<>> /\ Head(s) \in {"-", "+"} THEN Tail(s) ELSE s
    IN  IF body # <<>> /\ \A i \in 1..Len(body) : body[i] \in Digits
        THEN Some(IF Head(s) = "-" THEN 0 - DigitsVal(body) ELSE DigitsVal(body))
        ELSE None

HasKey(d, k) == \E i \in 1..Len(d.items) : d.items[i][1] = k
GetKey(d, k) == d.items[CHOOSE i \in 1..Len(d.items) : d.items[i][1] = k][2]

\* One iteration of traverse's loop, at node current with segment step.
traverse_step(current, step) ==
    IF current.t = "dict" THEN
        IF ~HasKey(current, step) THEN Err("KeyError", "does not exist")
        ELSE Ok(GetKey(current, step))
    ELSE IF current.t = "list" THEN
        IF int(step) = None THEN Err("ValueError", "is not a valid list index")
        ELSE LET index == int(step)[1]
                 n == Len(current.items)
             IN  IF index >= n THEN Err("IndexError", "is out of range for list")
                 \* current[index]: Python counts a negative index from the end
                 ELSE IF index >= 0 THEN Ok(current.items[index + 1])
                 ELSE IF index >= 0 - n THEN Ok(current.items[n + index + 1])
                 ELSE Err("IndexError", "list index out of range")
    ELSE Err("ValueError", "Expected list or dictionary")

RECURSIVE traverse_from(_, _)
traverse_from(current, steps) ==
    IF steps = <<>> THEN Ok(current)
    ELSE LET r == traverse_step(current, Head(steps))
         IN  IF r.ok THEN traverse_from(r.value, Tail(steps)) ELSE r

\* traverse(structure, path) for a str path.
traverse(structure, path) == traverse_from(structure, split(path, "."))

-----------------------------------------------------------------------------
(* The engine's regular expressions: engine.py, lines 23-27 and the        *)
(* patterns of the four constructs.                                        *)

Min(S) == CHOOSE x \in S : \A y \in S : x <= y
Max(S) == CHOOSE x \in S : \A y \in S : x >= y

\* The first index of s at or after i that holds no whitespace.
RECURSIVE skip_spaces(_, _)
skip_spaces(s, i) ==
    IF i <= Len(s) /\ IsSpace(s[i]) THEN skip_spaces(s, i + 1) ELSE i

\* ^\s*#\s*<word>\s*$ with re.IGNORECASE, for a directive word.
directive_match(data, word) ==
    LET h == skip_spaces(data, 1)
        w == skip_spaces(data, h + 1)
    IN  /\ h <= Len(data)
        /\ data[h] = "#"
        /\ w <= Len(data)
        /\ LowerTok(data[w]) = word
        /\ skip_spaces(data, w + 1) = Len(data) + 1

RE_DISABLE_match(data) == directive_match(data, "templating: off")

RE_ENABLE_match(data) == directive_match(data, "templating: on")

\* A variant of RE_DELETE_search that looks at the start of the line only, as
\* RE_DELETE.match would.
RE_DELETE_match(data) ==
    /\ data # <<>>
    /\ data[1] = "#"
    /\ LET w == skip_spaces(data, 2)
       IN  w <= Len(data) /\ LowerTok(data[w]) = "templating: delete"

\* RE_DELETE.search: #\s*templating: delete anywhere in the line.
RE_DELETE_search(data) ==
    \E h \in 1..Len(data) :
        /\ data[h] = "#"
        /\ LET w == skip_spaces(data, h + 1)
           IN  w <= Len(data) /\ LowerTok(data[w]) = "templating: delete"

\* The places a "}" can end a slot opened by the "${" at p: ".+" takes at
\* least one character and never a newline.
ClosingBraces(data, p) ==
    { e \in (p + 3)..Len(data) :
        data[e] = "}" /\ \A j \in (p + 2)..(e - 1) : data[j] # "\n" }

SlotStarts(data) ==
    { p \in 1..(Len(data) - 1) :
        data[p] = "$" /\ data[p + 1] = "{" /\ ClosingBraces(data, p) # {} }

\* "(?:#\s*)?" before the "${" at p: the "#" that only whitespace separates
\* from it, when there is one; otherwise p itself.
MatchStart(data, p) ==
    LET hs == { h \in 1..(p - 1) :
                  data[h] = "#" /\ \A j \in (h + 1)..(p - 1) : IsSpace(data[j]) }
    IN  IF hs = {} THEN p ELSE Min(hs)

\* RE_TEMPLATE_SLOT.search(data): the leftmost match, its ".+" greedy up to
\* the last "}" of the line.  Optional [pre, content, post].
RE_TEMPLATE_SLOT_search(data) ==
    IF SlotStarts(data) = {} THEN None
    ELSE LET p == Min(SlotStarts(data))
             e == Max(ClosingBraces(data, p))
         IN  Some([pre |-> SubSeq(data, 1, MatchStart(data, p) - 1),
                   content |-> SubSeq(data, p + 2, e - 1),
                   post |-> SubSeq(data, e + 1, Len(data))])

Quotes == {"'", "\""}

\* ^["'](.+)["']$
literal_pattern(content) ==
    /\ Len(content) >= 3
    /\ content[1] \in Quotes
    /\ content[Len(content)] \in Quotes

\* ^pyproject((?:\.[^.]+)+)?$
pyproject_pattern(content) ==
    /\ Len(content) >= 1
    /\ content[1] = "pyproject"
    /\ \/ Len(content) = 1
       \/ /\ content[2] = "."
          /\ \A q \in 1..Len(split(SubSeq(content, 3, Len(content)), ".")) :
                 split(SubSeq(content, 3, Len(content)), ".")[q] # <<>>

\* ^(\.?(?:\/.+)+)$
file_pattern(content) ==
    \/ Len(content) >= 2 /\ content[1] = "/"
    \/ Len(content) >= 3 /\ content[1] = "." /\ content[2] = "/"

\* ^env(?:\.([^\.\s]+))?$
environ_pattern(content) ==
    /\ Len(content) >= 1
    /\ content[1] = "env"
    /\ \/ Len(content) = 1
       \/ /\ Len(content) >= 3
          /\ content[2] = "."
          /\ \A j \in 3..Len(content) : content[j] # "." /\ ~IsSpace(content[j])

\* Construct.constructs, in the order the decorators register them.
constructs == <<"literal", "pyproject", "file", "env">>

construct_pattern(name, content) ==
    CASE name = "literal" -> literal_pattern(content)
      [] name = "pyproject" -> pyproject_pattern(content)
      [] name = "file" -> file_pattern(content)
      [] OTHER -> environ_pattern(content)

\* _evaluate_slot's loop: the first construct whose pattern matches, or "".
first_construct(content) ==
    LET hits == { k \in 1..Len(constructs) : construct_pattern(constructs[k], content) }
    IN  IF hits = {} THEN "" ELSE constructs[Min(hits)]

-----------------------------------------------------------------------------
(* str() of a Python value.                                                *)

RECURSIVE repr(_)
RECURSIVE repr_items(_, _)
repr_items(t, items) ==
    IF items = <<>> THEN <<>>
    ELSE (IF t = "dict"
          THEN <<"'">> \o items[1][1] \o <<"'", ":", " ">> \o repr(items[1][2])
          ELSE repr(items[1]))
         \o (IF Len(items) > 1 THEN <<",", " ">> ELSE <<>>)
         \o repr_items(t, Tail(items))

repr(v) ==
    CASE v.t = "str" -> <<"'">> \o v.v \o <<"'">>
      [] v.t = "int" -> v.v
      [] v.t = "list" -> <<"[">> \o repr_items("list", v.items) \o <<"]">>
      [] OTHER -> <<"{">> \o repr_items("dict", v.items) \o <<"}">>

str(v) == IF v.t = "str" THEN v.v ELSE repr(v)

-----------------------------------------------------------------------------
(* The file system, as os.path sees it.                                    *)

Files == DOMAIN fs

Dirs == UNION { { SubSeq(f, 1, k) : k \in 0..(Len(f) - 1) } : f \in Files }

\* The file that the parts name, walking from directory cur; None when a part
\* is missing, or the walk ends at a directory or passes through a file.
RECURSIVE lookup(_, _)
lookup(cur, parts) ==
    IF parts = <<>> THEN None
    ELSE IF Head(parts) = <<>> \/ Head(parts) = <<".">> THEN lookup(cur, Tail(parts))
    ELSE IF Head(parts) = <<".", ".">>
         THEN lookup(IF cur = <<>> THEN <<>> ELSE SubSeq(cur, 1, Len(cur) - 1),
                     Tail(parts))
    ELSE LET next == Append(cur, Head(parts))
         IN  IF next \in Dirs THEN lookup(next, Tail(parts))
             ELSE IF next \in Files /\ Tail(parts) = <<>> THEN Some(next)
             ELSE None

\* os.path.isfile(path), for an absolute path given by its parts.
isfile(path) == lookup(<<>>, path) # None

\* os.path.join(root, path[1:]): a second argument that is itself absolute
\* replaces the first.
join_root(path) ==
    IF Len(path) >= 2 /\ path[2] = "/"
    THEN split(SubSeq(path, 2, Len(path)), "/")
    ELSE Root \o split(SubSeq(path, 2, Len(path)), "/")

\* os.path.join(root, os.path.dirname(location), path), location being what
\* relative() returned: parts below the root, or "/" and the absolute parts.
join_location(location, path) ==
    LET dirname == SubSeq(location, 1, Len(location) - 1)
    IN  IF dirname # <<>> /\ dirname[1] = <<"/">>
        THEN Tail(dirname) \o split(path, "/")
        ELSE Root \o dirname \o split(path, "/")

-----------------------------------------------------------------------------
(* EvaluationContext and the exceptions: engine.py 91-137, error.py.       *)

\* TemplatingEngine.pyproject.data.  get_configuration requires its "tool"
\* table; the tool.poetry-templating table in it is left to its defaults or
\* is what include and exclude hold.
Manifest ==
    PyDict(<< << <<"tool">>,
                 PyDict(<< << <<"v">>, PyStr(<<"1", ".", "2">>) >>,
                           << <<"l">>, PyList(<< PyStr(<<"x">>), PyStr(<<"y">>) >>) >> >>) >>,
              << <<"n">>, PyStr(<<"e">>) >> >>)

\* os.environ
Environ == PyDict(<< << <<"K">>, PyStr(<<"v">>) >> >>)

\* sys.getrecursionlimit(), counted in activations of the model's stack.
RecursionLimit == 6

\* with-blocks and inject / restore pairs inside one another
MaxBlocks == 3

\* EvaluationContext.__init__; location is an Optional absolute path.
EvaluationContext(location) ==
    [location |-> IF location = None THEN None
                  ELSE Some(relative(location[1], Root)),
     enabled |-> TRUE,
     line |-> 0 - 1]

\* An exception other than EvaluationError, as a handler raises it.
Exception(type, msg) ==
    [type |-> type, msg |-> msg, location |-> None, line |-> 0, cause |-> ""]

\* EvaluationError(ctx, message): the message names ctx.location and ctx.line.
EvaluationError(ctx, msg) ==
    [type |-> "EvaluationError", msg |-> msg, location |-> ctx.location,
     line |-> ctx.line, cause |-> ""]

RecursionError == Exception("RecursionError", "maximum recursion depth exceeded")

\* A variant of evaluate_line that looks for the directives only while
\* evaluation is enabled.
evaluate_line_latched(ctx, data) ==
    LET c == [ctx EXCEPT !.line = @ + 1]
    IN  IF ~c.enabled
        THEN [ctx |-> c, emit |-> Some(data), slot |-> None]
        ELSE IF RE_DISABLE_match(data)
        THEN [ctx |-> [c EXCEPT !.enabled = FALSE], emit |-> None, slot |-> None]
        ELSE IF RE_ENABLE_match(data) \/ RE_DELETE_search(data)
        THEN [ctx |-> c, emit |-> None, slot |-> None]
        ELSE IF RE_TEMPLATE_SLOT_search(data) = None
        THEN [ctx |-> c, emit |-> Some(data), slot |-> None]
        ELSE [ctx |-> c, emit |-> None, slot |-> RE_TEMPLATE_SLOT_search(data)]

\* A variant of evaluate_line that counts only the lines that are not
\* directives.
evaluate_line_uncounted(ctx, data) ==
    LET c == [ctx EXCEPT !.line = @ + 1]
    IN  IF RE_DISABLE_match(data)
        THEN [ctx |-> [ctx EXCEPT !.enabled = FALSE], emit |-> None, slot |-> None]
        ELSE IF RE_ENABLE_match(data)
        THEN [ctx |-> [ctx EXCEPT !.enabled = TRUE], emit |-> None, slot |-> None]
        ELSE IF c.enabled
        THEN IF RE_DELETE_search(data)
             THEN [ctx |-> c, emit |-> None, slot |-> None]
             ELSE IF RE_TEMPLATE_SLOT_search(data) = None
             THEN [ctx |-> c, emit |-> Some(data), slot |-> None]
             ELSE [ctx |-> c, emit |-> None, slot |-> RE_TEMPLATE_SLOT_search(data)]
        ELSE [ctx |-> c, emit |-> Some(data), slot |-> None]

\* The first part of EvaluationContext.evaluate_line, up to the substitution:
\* the context afterwards, the line to emit if it is decided already, and the
\* slot RE_TEMPLATE_SLOT.sub found if there is one to evaluate.
evaluate_line(ctx, data) ==
    LET c == [ctx EXCEPT !.line = @ + 1]
    IN  IF RE_DISABLE_match(data)
        THEN [ctx |-> [c EXCEPT !.enabled = FALSE], emit |-> None, slot |-> None]
        ELSE IF RE_ENABLE_match(data)
        THEN [ctx |-> [c EXCEPT !.enabled = TRUE], emit |-> None, slot |-> None]
        ELSE IF c.enabled
        THEN IF RE_DELETE_search(data)
             THEN [ctx |-> c, emit |-> None, slot |-> None]
             ELSE IF RE_TEMPLATE_SLOT_search(data) = None
             THEN [ctx |-> c, emit |-> Some(data), slot |-> None]
             ELSE [ctx |-> c, emit |-> None, slot |-> RE_TEMPLATE_SLOT_search(data)]
        ELSE [ctx |-> c, emit |-> Some(data), slot |-> None]

\* What a construct's handler does: return a value, raise, call
\* ctx.evaluate_string on a text that holds a slot, or call
\* engine.evaluate_string on a file's content.
Value(v) == [kind |-> "value", value |-> v]
Raise(e) == [kind |-> "raise", exc |-> e]
CallSub(m) == [kind |-> "sub", slot |-> m]
CallEvaluate(content, path) == [kind |-> "evaluate", content |-> content, path |-> path]

\* literal_construct: ctx.evaluate_string(match.group(1))
literal_construct(content, ctx) ==
    LET inner == SubSeq(content, 2, Len(content) - 1)
    IN  IF RE_TEMPLATE_SLOT_search(inner) = None
        THEN Value(inner)
        ELSE CallSub(RE_TEMPLATE_SLOT_search(inner)[1])

\* pyproject_construct
pyproject_construct(content, ctx) ==
    IF Len(content) = 1 THEN Value(str(Manifest))
    ELSE LET result == traverse(Manifest, SubSeq(content, 3, Len(content)))
         IN  IF result.ok THEN Value(str(result.value))
             ELSE Raise(Exception(result.error, result.msg))

\* file_construct, lines 186-193: the path the slot names.  Optional: None
\* when the path is relative and the context has no location.
file_construct_path(content, ctx) ==
    IF content[1] = "/" THEN Some(join_root(content))
    ELSE IF ctx.location = None THEN None
    ELSE Some(join_location(ctx.location[1], content))

\* A variant of file_construct that evaluates every included file.
file_construct_unfiltered(content, ctx) ==
    LET path == file_construct_path(content, ctx)
    IN  IF path = None
        THEN Raise(EvaluationError(ctx, "Relative paths are not permitted in this context"))
        ELSE IF ~isfile(path[1])
        THEN Raise(EvaluationError(ctx, "No such file"))
        ELSE CallEvaluate(fs[lookup(<<>>, path[1])[1]], path[1])

\* file_construct
file_construct(content, ctx) ==
    LET path == file_construct_path(content, ctx)
    IN  IF path = None
        THEN Raise(EvaluationError(ctx, "Relative paths are not permitted in this context"))
        ELSE IF ~isfile(path[1])
        THEN Raise(EvaluationError(ctx, "No such file"))
        ELSE IF should_process(path[1], include, exclude)
        THEN CallEvaluate(fs[lookup(<<>>, path[1])[1]], path[1])
        ELSE Value(fs[lookup(<<>>, path[1])[1]])

\* environ_construct
environ_construct(content, ctx) ==
    IF Len(content) = 1 THEN Value(str(Environ))
    ELSE LET key == SubSeq(content, 3, Len(content))
         IN  IF ~HasKey(Environ, key)
             THEN Raise(EvaluationError(ctx, "No environment variable"))
             ELSE Value(GetKey(Environ, key).v)

\* A variant of _evaluate_slot that leaves a slot no construct takes as it is.
evaluate_slot_lenient(content, ctx) ==
    LET name == first_construct(content)
    IN  CASE name = "literal" -> literal_construct(content, ctx)
          [] name = "pyproject" -> pyproject_construct(content, ctx)
          [] name = "file" -> file_construct(content, ctx)
          [] name = "env" -> environ_construct(content, ctx)
          [] OTHER -> Value(<<"$", "{">> \o content \o <<"}">>)

\* _evaluate_slot: the handler of the first matching construct.
evaluate_slot(content, ctx) ==
    LET name == first_construct(content)
    IN  CASE name = "literal" -> literal_construct(content, ctx)
          [] name = "pyproject" -> pyproject_construct(content, ctx)
          [] name = "file" -> file_construct(content, ctx)
          [] name = "env" -> environ_construct(content, ctx)
          [] OTHER -> Raise(EvaluationError(ctx, "Unknown Construct"))

\* A variant of the except clause that lets every exception through as it is.
except_clause_reraise(ctx, e) == e

\* A variant of the except clause that wraps every exception, an
\* EvaluationError too, with the context of its own slot.
except_clause_rewrap(ctx, e) ==
    [type |-> "EvaluationError", msg |-> e.msg, location |-> ctx.location,
     line |-> ctx.line, cause |-> IF e.type = "EvaluationError" THEN e.cause ELSE e.type]

\* _evaluate_slot's except clause, for an exception e leaving the handler.
except_clause(ctx, e) ==
    IF e.type = "EvaluationError" THEN e
    ELSE [type |-> "EvaluationError", msg |-> e.msg, location |-> ctx.location,
          line |-> ctx.line, cause |-> e.type]

-----------------------------------------------------------------------------
(* The activations.  An "eval" frame is a loop over lines with its own     *)
(* EvaluationContext: engine.evaluate_string (mode "string") or the body   *)
(* of evaluate_and_replace's loop for one file (mode "file").  A "sub"     *)
(* frame is RE_TEMPLATE_SLOT.sub with its one match being evaluated.       *)

EvalFrame(mode, path, location, lines) ==
    [kind |-> "eval", mode |-> mode, path |-> path,
     ctx |-> EvaluationContext(location), lines |-> lines, i |-> 0, result |-> <<>>]

SubFrame(m) ==
    [kind |-> "sub", pre |-> m.pre, content |-> m.content, post |-> m.post]

Top == stack[Len(stack)]
Pop == SubSeq(stack, 1, Len(stack) - 1)

\* The context of the innermost loop over lines.
CurrentCtx == stack[Max({ k \in 1..Len(stack) : stack[k].kind = "eval" })].ctx

Running == outcome = Pending /\ stack # <<>> /\ ret = None /\ exc = None

\* for line in ...: evaluated = ctx.evaluate_line(line), up to the substitution.
EvaluateLine ==
    /\ Running
    /\ Top.kind = "eval"
    /\ Top.i < Len(Top.lines)
    /\ LET r == evaluate_line(Top.ctx, Top.lines[Top.i + 1])
           f == [Top EXCEPT !.i = @ + 1, !.ctx = r.ctx,
                            !.result = IF r.emit = None THEN @ ELSE Append(@, r.emit[1])]
       IN  IF r.slot = None
           THEN stack' = Append(Pop, f) /\ exc' = exc
           ELSE IF Len(stack) >= RecursionLimit
           THEN stack' = Append(Pop, f) /\ exc' = Some(RecursionError)
           ELSE stack' = Append(Pop, f) \o <<SubFrame(r.slot[1])>> /\ exc' = exc
    /\ UNCHANGED <<heap, include, exclude, fs, call, ret, todo, count, outcome>>

\* _evaluate_slot(match) for the slot of the innermost substitution.
EvaluateSlot ==
    /\ Running
    /\ Top.kind = "sub"
    /\ LET r == evaluate_slot(Top.content, CurrentCtx)
       IN  CASE r.kind = "value" ->
                  /\ ret' = Some(r.value)
                  /\ UNCHANGED <<stack, exc>>
             [] r.kind = "raise" ->
                  /\ exc' = Some(r.exc)
                  /\ UNCHANGED <<stack, ret>>
             [] r.kind \in {"sub", "evaluate"} /\ Len(stack) >= RecursionLimit ->
                  /\ exc' = Some(RecursionError)
                  /\ UNCHANGED <<stack, ret>>
             [] r.kind = "sub" /\ Len(stack) < RecursionLimit ->
                  /\ stack' = Append(stack, SubFrame(r.slot))
                  /\ UNCHANGED <<ret, exc>>
             [] r.kind = "evaluate" /\ Len(stack) < RecursionLimit ->
                  /\ stack' = Append(stack, EvalFrame("string", <<>>, Some(r.path),
                                                      split(r.content, "\n")))
                  /\ UNCHANGED <<ret, exc>>
    /\ UNCHANGED <<heap, include, exclude, fs, call, todo, count, outcome>>

\* The handler returned: _evaluate_slot returns its value, sub splices it in
\* and ctx.evaluate_string returns the line.
SubReturn ==
    /\ outcome = Pending /\ stack # <<>> /\ ret # None /\ exc = None
    /\ Top.kind = "sub"
    /\ ret' = Some(Top.pre \o ret[1] \o Top.post)
    /\ stack' = Pop
    /\ UNCHANGED <<heap, include, exclude, fs, call, exc, todo, count, outcome>>

\* evaluate_line returned a line: the loop keeps it.
LineReturn ==
    /\ outcome = Pending /\ stack # <<>> /\ ret # None /\ exc = None
    /\ Top.kind = "eval"
    /\ stack' = Append(Pop, [Top EXCEPT !.result = Append(@, ret[1])])
    /\ ret' = None
    /\ UNCHANGED <<heap, include, exclude, fs, call, exc, todo, count, outcome>>

\* A variant of EvalReturn in which an included text is evaluated with the
\* includer's context object: the enabled flag it ends with is the includer's.
EvalReturnShared ==
    /\ Running
    /\ Top.kind = "eval" /\ Top.mode = "string"
    /\ Top.i = Len(Top.lines)
    /\ IF Len(stack) = 1
       THEN /\ stack' = Pop
            /\ outcome' = Returned(join(Top.result, <<"\n">>)) /\ ret' = ret
       ELSE LET j == Max({ k \in 1..(Len(stack) - 1) : stack[k].kind = "eval" })
            IN  /\ stack' = [Pop EXCEPT ![j].ctx.enabled = Top.ctx.enabled]
                /\ ret' = Some(join(Top.result, <<"\n">>)) /\ outcome' = outcome
    /\ UNCHANGED <<heap, include, exclude, fs, call, exc, todo, count>>

\* engine.evaluate_string: return "\n".join(result)
EvalReturn ==
    /\ Running
    /\ Top.kind = "eval" /\ Top.mode = "string"
    /\ Top.i = Len(Top.lines)
    /\ stack' = Pop
    /\ IF Len(stack) = 1
       THEN outcome' = Returned(join(Top.result, <<"\n">>)) /\ ret' = ret
       ELSE ret' = Some(join(Top.result, <<"\n">>)) /\ outcome' = outcome
    /\ UNCHANGED <<heap, include, exclude, fs, call, exc, todo, count>>

\* A variant of Propagate in which the loop over a file's lines writes what
\* it has so far when an exception leaves it.
PropagateWriting ==
    /\ outcome = Pending /\ stack # <<>> /\ exc # None
    /\ stack' = Pop
    /\ fs' = IF Top.kind = "eval" /\ Top.mode = "file"
             THEN [fs EXCEPT ![Top.path] = join(Top.result, <<>>)]
             ELSE fs
    /\ LET e == IF Top.kind = "sub" THEN except_clause(CurrentCtx, exc[1]) ELSE exc[1]
       IN  /\ exc' = Some(e)
           /\ outcome' = IF Len(stack) = 1 THEN Raised(e) ELSE outcome
    /\ UNCHANGED <<heap, include, exclude, call, ret, todo, count>>

\* An exception leaves the innermost activation; _evaluate_slot's except
\* clause sees it on the way, the loops over lines have no handler.
Propagate ==
    /\ outcome = Pending /\ stack # <<>> /\ exc # None
    /\ stack' = Pop
    /\ LET e == IF Top.kind = "sub" THEN except_clause(CurrentCtx, exc[1]) ELSE exc[1]
       IN  /\ exc' = Some(e)
           /\ outcome' = IF Len(stack) = 1 THEN Raised(e) ELSE outcome
    /\ UNCHANGED <<heap, include, exclude, fs, call, ret, todo, count>>

-----------------------------------------------------------------------------
(* evaluate_and_replace: engine.py 59-75.                                  *)

\* File iteration: the lines with their "\n" kept; no line for "".
RECURSIVE readlines(_)
readlines(s) ==
    IF s = <<>> THEN <<>>
    ELSE IF \A i \in 1..Len(s) : s[i] # "\n" THEN <<s>>
    ELSE LET i == CHOOSE k \in 1..Len(s) :
                      s[k] = "\n" /\ \A j \in 1..(k - 1) : s[j] # "\n"
         IN  <<SubSeq(s, 1, i)>> \o readlines(SubSeq(s, i + 1, Len(s)))

\* os.walk is top-down: a directory's files come before those of the
\* directories below it; the order within a directory is the system's.
WalkCanYield(path) ==
    /\ path \in todo
    /\ \A q \in todo :
          ~(Len(q) < Len(path) /\ IsPrefix(SubSeq(q, 1, Len(q) - 1), path))

\* A variant of WalkNext that counts every file the walk yields.
WalkNextCounting ==
    /\ call.op = "evaluate_and_replace"
    /\ outcome = Pending /\ stack = <<>>
    /\ \E path \in todo :
          /\ WalkCanYield(path)
          /\ todo' = todo \ {path}
          /\ count' = count + 1
          /\ IF should_process(path, include, exclude)
             THEN stack' = <<EvalFrame("file", path, Some(path), readlines(fs[path]))>>
             ELSE UNCHANGED stack
    /\ UNCHANGED <<heap, include, exclude, fs, call, ret, exc, outcome>>

\* The next path of the walk: counted and opened if should_process.
WalkNext ==
    /\ call.op = "evaluate_and_replace"
    /\ outcome = Pending /\ stack = <<>>
    /\ \E path \in todo :
          /\ WalkCanYield(path)
          /\ todo' = todo \ {path}
          /\ IF should_process(path, include, exclude)
             THEN /\ count' = count + 1
                  /\ stack' = <<EvalFrame("file", path, Some(path), readlines(fs[path]))>>
             ELSE UNCHANGED <<count, stack>>
    /\ UNCHANGED <<heap, include, exclude, fs, call, ret, exc, outcome>>

\* file.seek(0); file.write(result); file.truncate()
FileWrite ==
    /\ Running
    /\ Top.kind = "eval" /\ Top.mode = "file"
    /\ Top.i = Len(Top.lines)
    /\ fs' = [fs EXCEPT ![Top.path] = join(Top.result, <<>>)]
    /\ stack' = Pop
    /\ UNCHANGED <<heap, include, exclude, call, ret, exc, todo, count, outcome>>

\* return count
WalkReturn ==
    /\ call.op = "evaluate_and_replace"
    /\ outcome = Pending /\ stack = <<>> /\ todo = {}
    /\ outcome' = Returned(count)
    /\ UNCHANGED <<heap, include, exclude, fs, call, stack, ret, exc, todo, count>>

-----------------------------------------------------------------------------
(* The calls, and the inputs they are checked on.                          *)

SeqsUpTo(S, n) == UNION {[1..k -> S] : k \in 0..n}

\* should_process: the patterns of a configuration, and the paths asked about.
MaxPatterns == 2

Patterns ==
    { <<"*", ".", "p", "y">>,
      <<"/", "*", ".", "P", "Y">>,
      <<"a", ".", "p", "y">>,
      <<"d", "/", "*">>,
      <<"?", ".", "t">> }

PatternLists == SeqsUpTo(Patterns, MaxPatterns)

AskedPaths ==
    { << <<"r">>, <<"a", ".", "p", "y">> >>,
      << <<"r">>, <<"A", ".", "P", "Y">> >>,
      << <<"r">>, <<"b", ".", "t">> >>,
      << <<"r">>, <<"d">>, <<"c", ".", "p", "y">> >>,
      << <<"r">>, <<"d">>, <<".", ".">>, <<"b", ".", "t">> >>,
      << <<"r">>, <<"d">>, <<"e">> >>,
      << <<"o">>, <<"a", ".", "p", "y">> >> }

\* traverse: the documents, and the dotted paths.
MaxSteps == 3

demo_structure ==
    PyDict(<< << <<"l">>, PyList(<< PyDict(<< << <<"n">>, PyInt(<<"1">>) >> >>),
                                    PyInt(<<"2">>) >>) >>,
              << <<"d">>, PyDict(<< << <<"s">>, PyInt(<<"3">>) >> >>) >>,
              << <<"t">>, PyInt(<<"4">>) >> >>)

Structures == { demo_structure, PyList(<< PyStr(<<"x">>), demo_structure >>) }

Steps == { <<"l">>, <<"d">>, <<"t">>, <<"n">>, <<"0">>, <<"1">>, <<"2">>,
           <<"-", "1">>, <<"-", "3">>, <<>> }

DottedPaths == { join(p, <<".">>) : p \in SeqsUpTo(Steps, MaxSteps) \ {<<>>} }

Idle ==
    /\ heap = NoMixins
    /\ fs = <<>>
    /\ stack = <<>>
    /\ ret = None
    /\ exc = None
    /\ todo = {}
    /\ count = 0
    /\ outcome = Pending

InitShouldProcess ==
    /\ include \in PatternLists
    /\ exclude \in PatternLists
    /\ \E p \in AskedPaths : call = [op |-> "should_process", path |-> p]
    /\ Idle

\* engine.should_process(path)
ShouldProcess ==
    /\ call.op = "should_process"
    /\ outcome = Pending
    /\ outcome' = Returned(should_process(call.path, include, exclude))
    /\ UNCHANGED <<heap, include, exclude, fs, call, stack, ret, exc, todo, count>>

SpecShouldProcess == InitShouldProcess /\ [][ShouldProcess]_vars

InitTraverse ==
    /\ include = <<>>
    /\ exclude = <<>>
    /\ \E s \in Structures, p \in DottedPaths :
           call = [op |-> "traverse", structure |-> s, path |-> p]
    /\ Idle

\* traverse(structure, path): returns the node, or raises.
Traverse ==
    /\ call.op = "traverse"
    /\ outcome = Pending
    /\ LET r == traverse(call.structure, call.path)
       IN  outcome' = IF r.ok THEN Returned(r.value)
                      ELSE Raised([type |-> r.error, msg |-> r.msg])
    /\ UNCHANGED <<heap, include, exclude, fs, call, stack, ret, exc, todo, count>>

SpecTraverse == InitTraverse /\ [][Traverse]_vars

-----------------------------------------------------------------------------
(* The engine's calls: evaluate_string and evaluate_and_replace.           *)

a_py == <<"a", ".", "p", "y">>
b_py == <<"b", ".", "p", "y">>
c_t == <<"c", ".", "t">>

FileA == << <<"r">>, a_py >>
FileB == << <<"r">>, b_py >>
FileC == << <<"r">>, c_t >>
FileDB == << <<"r">>, <<"d">>, b_py >>

Slot(content) == <<"$", "{">> \o content \o <<"}">>
Quoted(q, text) == <<q>> \o text \o <<q>>

LineOff == <<"#", " ", "templating: off">>
LineOn == <<"#", " ", "TEMPLATING: ON", " ">>
LineDelete == <<"x", " ", "#", "templating: delete">>
LineZ == Slot(Quoted("'", <<"Z">>))

\* The lines around the one line under study.
BasicLines == { LineOff, LineOn, LineDelete, LineZ, <<>> }

\* The text before a slot, the slot's content, the text after it.
Pres == { <<>>, <<"!">>, <<"#">>, <<"#", " ">>, <<"x", " ">> }

Contents ==
    { Quoted("'", <<"X">>), Quoted("\"", <<"X">>), <<"'", "X", "\"">>,
      Quoted("'", Slot(Quoted("\"", <<"Y">>))), <<"'", "'">>,
      Quoted("'", <<"a">>) \o <<"}", " ">> \o <<"$", "{">> \o Quoted("'", <<"b">>),
      <<"pyproject">>,
      <<"pyproject", ".", "tool", ".", "v">>,
      <<"pyproject", ".", "tool", ".", "m">>,
      <<"pyproject", ".", "tool", ".", "l", ".", "1">>,
      <<"pyproject", ".", "tool", ".", "l", ".", "-", "1">>,
      <<"pyproject", ".", "tool", ".", "l", ".", "2">>,
      <<"pyproject", ".", "tool", ".", "l", ".", "k">>,
      <<"pyproject", ".", "n", ".", "k">>,
      <<"pyproject", ".", ".", "tool">>,
      <<"env">>, <<"env", ".", "K">>, <<"env", ".", "M">>,
      <<"x">>, <<"d", "/", "b">> }

Posts == { <<>>, <<" ", "#", " ", "TEMPLATING: DELETE">>, <<"}">> }

PlainLines ==
    { <<"x">>, <<"$", "{", "}">>, <<"$", "x">>, <<"#", " ", "x">>,
      <<"#", " ", "templating: off", "x">>, <<"x", "#", " ", "templating: on">> }

SlotLines ==
    { pre \o Slot(content) \o post : pre \in Pres, content \in Contents, post \in Posts }

\* The lines with a file-inclusion slot.
IncludeLines ==
    { Slot(c) : c \in
        { <<".", "/">> \o b_py, <<"/">> \o b_py, <<"/", "d", "/">> \o b_py,
          <<".", "/", "d", "/">> \o b_py, <<".", "/", ".", ".", "/">> \o b_py,
          <<".", "/">> \o c_t, <<".", "/">> \o a_py, <<"d", "/">> \o b_py,
          <<".", ".", "/">> \o b_py, <<"/", "/", "r", "/">> \o b_py,
          <<".", "/", "d">>, <<".", "/", "n">>,
          Quoted("'", Slot(<<".", "/">> \o b_py)) } }
    \cup { <<"x", " ">> \o Slot(<<".", "/">> \o b_py) \o <<" ", "y">> }

MaxLines == 4
MaxRichLines == 2

\* Texts of up to n lines: one line of Rich, the others of Around.
WithOne(Rich, Around, n) ==
    UNION { { [j \in 1..k |-> IF j = at THEN rich ELSE around[j]] :
                rich \in Rich, around \in [1..k -> Around], at \in 1..k } :
            k \in 1..n }

\* One text with the same slot after each of the prefixes that might keep a
\* slot from being expanded.
Prefixes == << <<"!">>, <<"\\">>, <<"#">>, <<"#", " ">>, <<"$">>, <<"x", " ">> >>

PrefixedSlots ==
    join([j \in 1..Len(Prefixes) |-> Prefixes[j] \o Slot(Quoted("'", <<"X">>))], <<"\n">>)

\* One text with a failing slot after a line of each other kind.
CountedLines ==
    join(<<LineOff, <<"x">>, LineOn, LineDelete, Slot(<<"x">>)>>, <<"\n">>)

Texts ==
    { join(ls, <<"\n">>) : ls \in SeqsUpTo(BasicLines, MaxLines) \ {<<>>} }
    \cup { join(ls, <<"\n">>) :
             ls \in WithOne(SlotLines \cup PlainLines, {LineOff, <<>>}, MaxRichLines) }
    \cup { PrefixedSlots, CountedLines }

\* An inclusion with a slot on the line after it.
AfterInclusion == Slot(<<".", "/">> \o b_py) \o <<"\n">> \o LineZ

IncludeTexts ==
    { join(ls, <<"\n">>) : ls \in WithOne(IncludeLines, {LineOff}, MaxRichLines) }
    \cup { AfterInclusion }

\* The content of each file of the project.
NL == <<"\n">>

ContentsA == { Slot(<<".", "/">> \o b_py), Slot(Quoted("'", <<"A">>)) \o NL,
               Slot(<<".", "/">> \o a_py) }
ContentsB == { LineZ, Slot(<<".", "/">> \o a_py), LineOff \o NL \o LineZ,
               Slot(<<"pyproject", ".", "tool", ".", "m">>), <<"x">> \o NL \o LineDelete,
               <<"x">> \o NL \o Slot(<<"pyproject", ".", "tool", ".", "m">>) }
ContentsC == { LineZ }
ContentsDB == { Slot(Quoted("'", <<"D">>)), <<"x">> \o NL \o Slot(<<".", "/", ".", ".", "/">> \o b_py) }

FileSystems ==
    { (FileA :> a) @@ (FileB :> b) @@ (FileC :> c) @@ (FileDB :> d) :
        a \in ContentsA, b \in ContentsB, c \in ContentsC, d \in ContentsDB }

DefaultFileSystem ==
    (FileA :> Slot(<<".", "/">> \o b_py)) @@ (FileB :> LineZ)
    @@ (FileC :> LineZ) @@ (FileDB :> Slot(Quoted("'", <<"D">>)))

\* tool.poetry-templating: include and exclude.
Configurations ==
    { << << <<"*", ".", "p", "y">> >>, <<>> >>,
      << << <<"*", ".", "p", "y">> >>, << <<"/">> \o b_py >> >> }

Locations ==
    { None, Some(FileA), Some(FileDB), Some(<< <<"o">>, a_py >>) }

NotWalking ==
    /\ ret = None /\ exc = None /\ todo = {} /\ count = 0 /\ outcome = Pending
    /\ heap = NoMixins

\* engine.evaluate_string(data, location), entered: ctx made, data split.
InitEvaluateString(data, location) ==
    /\ call = [op |-> "evaluate_string", data |-> data, location |-> location]
    /\ stack = <<EvalFrame("string", <<>>, location, split(data, "\n"))>>
    /\ NotWalking

InitText ==
    /\ include = << <<"*", ".", "p", "y">> >>
    /\ exclude = <<>>
    /\ fs = DefaultFileSystem
    /\ \E data \in Texts, location \in {None, Some(FileA)} :
           InitEvaluateString(data, location)

InitInclude ==
    /\ \E c \in Configurations : include = c[1] /\ exclude = c[2]
    /\ fs \in FileSystems
    /\ \E data \in IncludeTexts, location \in Locations :
           InitEvaluateString(data, location)

\* engine.evaluate_and_replace(), entered: os.walk has yielded nothing yet.
\* The call keeps the files as they were when it was made.
InitReplace ==
    /\ \E c \in Configurations : include = c[1] /\ exclude = c[2]
    /\ fs \in FileSystems
    /\ call = [op |-> "evaluate_and_replace", before |-> fs]
    /\ stack = <<>>
    /\ ret = None /\ exc = None /\ count = 0 /\ outcome = Pending
    /\ todo = DOMAIN fs
    /\ heap = NoMixins

Init == InitText \/ InitInclude \/ InitReplace

Next ==
    \/ EvaluateLine
    \/ EvaluateSlot
    \/ SubReturn
    \/ LineReturn
    \/ EvalReturn
    \/ Propagate
    \/ WalkNext
    \/ FileWrite
    \/ WalkReturn

Spec == Init /\ [][Next]_vars

(* util.Mixin: the replacement of one attribute of one object. *)

\* The Mixins of the model; all of them replace the same attribute.
Mixins == {"m", "n"}

\* What the attribute holds before any Mixin is injected.
Functions == {"f", "g"}

\* Mixin.__init__: self.replacement = repl, self.original = None.
replacement(m) == <<"replacement", m>>

Mixin(attr) == [attr |-> attr, original |-> [m \in Mixins |-> "None"]]

\* Mixin.inject
inject(m, h) ==
    [attr |-> replacement(m), original |-> [h.original EXCEPT ![m] = h.attr]]

\* Mixin.restore
restore(m, h) == [h EXCEPT !.attr = h.original[m]]

\* A `with m:` statement, or the statements `m.inject(); m.restore()`, in
\* progress: `before` is what the attribute held when it was reached.
Block(kind, m, before) == [kind |-> kind, m |-> m, before |-> before, pc |-> "body"]

InBody == IF stack = <<>> THEN TRUE ELSE Top.kind = "with" /\ Top.pc = "body"

\* Mixin.__enter__
MixinEnter ==
    /\ call.op = "Mixin"
    /\ InBody
    /\ Len(stack) < MaxBlocks
    /\ \E m \in Mixins :
           /\ heap' = inject(m, heap)
           /\ stack' = Append(stack, Block("with", m, heap.attr))
    /\ UNCHANGED <<include, exclude, fs, call, ret, exc, todo, count, outcome>>

\* Mixin.__exit__
MixinExit ==
    /\ call.op = "Mixin"
    /\ stack # <<>>
    /\ Top.kind = "with" /\ Top.pc = "body"
    /\ heap' = restore(Top.m, heap)
    /\ stack' = [stack EXCEPT ![Len(stack)].pc = "done"]
    /\ UNCHANGED <<include, exclude, fs, call, ret, exc, todo, count, outcome>>

\* m.inject(), with m.restore() as the next statement
MixinInject ==
    /\ call.op = "Mixin"
    /\ InBody
    /\ Len(stack) < MaxBlocks
    /\ \E m \in Mixins :
           /\ heap' = inject(m, heap)
           /\ stack' = Append(stack, Block("calls", m, heap.attr))
    /\ UNCHANGED <<include, exclude, fs, call, ret, exc, todo, count, outcome>>

\* m.restore()
MixinRestore ==
    /\ call.op = "Mixin"
    /\ stack # <<>>
    /\ Top.kind = "calls" /\ Top.pc = "body"
    /\ heap' = restore(Top.m, heap)
    /\ stack' = [stack EXCEPT ![Len(stack)].pc = "done"]
    /\ UNCHANGED <<include, exclude, fs, call, ret, exc, todo, count, outcome>>

\* The statement after the block, or after the restore, is reached.
BlockEnd ==
    /\ call.op = "Mixin"
    /\ stack # <<>>
    /\ Top.pc = "done"
    /\ stack' = SubSeq(stack, 1, Len(stack) - 1)
    /\ UNCHANGED <<heap, include, exclude, fs, call, ret, exc, todo, count, outcome>>

InitMixin ==
    /\ include = <<>>
    /\ exclude = <<>>
    /\ fs = <<>>
    /\ call = [op |-> "Mixin"]
    /\ stack = <<>>
    /\ ret = None /\ exc = None /\ todo = {} /\ count = 0 /\ outcome = Pending
    /\ \E attr \in Functions : heap = Mixin(attr)

NextMixin ==
    \/ MixinEnter
    \/ MixinExit
    \/ MixinInject
    \/ MixinRestore
    \/ BlockEnd

SpecMixin == InitMixin /\ [][NextMixin]_vars


-----------------------------------------------------------------------------
(* The properties.                                                         *)

Finished == outcome.status # "pending"

\* The path asked about, relative to the root, matches a pattern of the list.
Listed(patterns) ==
    \E k \in 1..Len(patterns) :
        pattern_matches(relative(call.path, Root), patterns[k])

\* C1: should_process(p) is true exactly when p, taken relative to the root,
\* matches at least one include pattern and matches no exclude pattern.
C1_ShouldProcess ==
    (call.op = "should_process" /\ Finished) =>
        /\ outcome.status = "returned"
        /\ outcome.value <=> (Listed(include) /\ ~Listed(exclude))

\* A path that an include pattern and an exclude pattern both match is refused.
C1_Witness ==
    /\ call.op = "should_process"
    /\ Listed(include) /\ Listed(exclude)
    /\ outcome = Returned(FALSE)

\* The segments of the path asked for, and the node its last segment is
\* looked up in.
C8_Segments == split(call.path, ".")

C8_Node ==
    IF Len(C8_Segments) = 1 THEN Ok(call.structure)
    ELSE traverse_from(call.structure, SubSeq(C8_Segments, 1, Len(C8_Segments) - 1))

\* C8: against a list, a path segment must be a non-negative integer below
\* the list's length: it selects the element at that index; a segment that
\* is no such integer fails with an invalid-index error, and an index at or
\* beyond the length fails with an out-of-range error.
C8_ListIndex ==
    (call.op = "traverse" /\ Finished /\ C8_Node.ok /\ C8_Node.value.t = "list") =>
        LET seg == C8_Segments[Len(C8_Segments)]
            list == C8_Node.value.items
            isNat == seg # <<>> /\ \A i \in 1..Len(seg) : seg[i] \in Digits
        IN  IF ~isNat
            THEN outcome.status = "raised" /\ outcome.exc.type = "ValueError"
            ELSE IF DigitsVal(seg) >= Len(list)
            THEN outcome.status = "raised" /\ outcome.exc.type = "IndexError"
            ELSE outcome = Returned(list[DigitsVal(seg) + 1])

\* The line holds the delete marker: "#", whitespace or none, and the word,
\* in upper or lower case.
HasDeleteMarker(data) ==
    \E h \in 1..Len(data), w \in 1..Len(data) :
        /\ h < w
        /\ data[h] = "#"
        /\ \A j \in (h + 1)..(w - 1) : IsSpace(data[j])
        /\ LowerTok(data[w]) = "templating: delete"

\* A line that is an on or off directive.
IsDirective(data) == RE_DISABLE_match(data) \/ RE_ENABLE_match(data)

\* The most recent directive among the first n of the lines is "off".
LastDirectiveOff(lines, n) ==
    LET ds == { k \in 1..n : IsDirective(lines[k]) }
    IN  ds # {} /\ RE_DISABLE_match(lines[Max(ds)])

\* The step in which a loop over lines takes its next line.
C2_Step ==
    (Running /\ Top.kind = "eval" /\ Top.i < Len(Top.lines)) =>
        LET f == Top
            data == f.lines[f.i + 1]
            g == stack'[Len(stack)]
            kept == Len(stack') = Len(stack) /\ exc' = None
        IN  /\ g.i = f.i + 1
            /\ g.ctx.enabled <=> ~LastDirectiveOff(f.lines, f.i + 1)
            /\ IF IsDirective(data)
               THEN g.result = f.result /\ kept
               ELSE IF LastDirectiveOff(f.lines, f.i)
               THEN g.result = Append(f.result, data) /\ kept
               ELSE IF HasDeleteMarker(data)
               THEN g.result = f.result /\ kept
               ELSE IF RE_TEMPLATE_SLOT_search(data) = None
               THEN g.result = Append(f.result, data) /\ kept
               ELSE /\ g.result = f.result
                    /\ \/ exc' = Some(RecursionError) /\ Len(stack') = Len(stack)
                       \/ /\ exc' = None
                          /\ Len(stack') = Len(stack) + 1
                          /\ stack'[Len(stack')].kind = "sub"
                          /\ stack'[Len(stack')].content =
                                 RE_TEMPLATE_SLOT_search(data)[1].content

\* C2: evaluation starts enabled and an on or off directive line sets the
\* state whatever it was before; a directive line never reaches the output;
\* a line that is no directive is emitted verbatim, with no slot substituted,
\* exactly when the most recent directive before it is an off directive, and
\* is subject to substitution otherwise.
C2_Directives == [][C2_Step]_vars

\* After an off directive a slot line came out as it was written.
C2_Witness ==
    /\ call.op = "evaluate_string"
    /\ call.data = join(<<LineOff, LineZ, LineOn, LineZ>>, <<"\n">>)
    /\ outcome = Returned(join(<<LineZ, <<"Z">>>>, <<"\n">>))

\* The lines of the text evaluate_string was called with.
Lines == split(call.data, "\n")

\* The text holds "${" nowhere.
NoSlotOpen(data) ==
    \A i \in 1..(Len(data) - 1) : ~(data[i] = "$" /\ data[i + 1] = "{")

\* No line is an on or off directive or holds the delete marker.
NoMarkers == \A k \in 1..Len(Lines) : ~IsDirective(Lines[k]) /\ ~HasDeleteMarker(Lines[k])

\* C3 as the specification states it: a text that holds "${" nowhere is
\* returned as it is, whatever its lines are.
C3_Original ==
    (call.op = "evaluate_string" /\ Finished /\ NoSlotOpen(call.data)) =>
        outcome = Returned(call.data)

\* C3: evaluate_string returns a text that holds "${" nowhere as it is, line
\* breaks and empty lines included, when none of its lines is an on or off
\* directive and none holds the delete marker.
C3_PlainText ==
    (call.op = "evaluate_string" /\ Finished /\ NoSlotOpen(call.data) /\ NoMarkers) =>
        outcome = Returned(call.data)

\* A text of two lines, the second empty, came back as it was.
C3_Witness ==
    /\ call.op = "evaluate_string"
    /\ call.data = <<"x", "\n">>
    /\ outcome = Returned(call.data)

\* Line k is met while evaluation is enabled.
EnabledAt(k) == ~LastDirectiveOff(Lines, k - 1)

\* The lines from the k-th on that the output keeps, when no slot is
\* substituted: no directive, and no marked line met while enabled.
RECURSIVE KeptFrom(_)
KeptFrom(k) ==
    IF k > Len(Lines) THEN <<>>
    ELSE IF IsDirective(Lines[k]) \/ (EnabledAt(k) /\ HasDeleteMarker(Lines[k]))
    THEN KeptFrom(k + 1)
    ELSE <<Lines[k]>> \o KeptFrom(k + 1)

\* No line that is to be substituted holds a slot.
NoSubstitution ==
    \A k \in 1..Len(Lines) :
        (EnabledAt(k) /\ ~IsDirective(Lines[k]) /\ ~HasDeleteMarker(Lines[k]))
            => RE_TEMPLATE_SLOT_search(Lines[k]) = None

IsOneSlot ==
    /\ Len(Lines) = 1
    /\ Len(call.data) >= 4
    /\ SubSeq(call.data, 1, 2) = <<"$", "{">>
    /\ call.data[Len(call.data)] = "}"

SlotContent == SubSeq(call.data, 3, Len(call.data) - 1)

\* C4: a slot whose content is a text X in one matching pair of single or
\* double quotes evaluates to X, X being evaluated again if it holds a slot;
\* a content whose opening and closing quotes differ is no literal.
C4_Literal ==
    (/\ call.op = "evaluate_string" /\ Finished /\ IsOneSlot
     /\ Len(SlotContent) >= 3
     /\ SlotContent[1] \in Quotes /\ SlotContent[Len(SlotContent)] \in Quotes) =>
        LET X == SubSeq(SlotContent, 2, Len(SlotContent) - 1)
        IN  IF SlotContent[1] # SlotContent[Len(SlotContent)]
            THEN outcome.status = "raised"
            ELSE /\ NoSlotOpen(X) => outcome = Returned(X)
                 /\ X = Slot(Quoted("\"", <<"Y">>)) => outcome = Returned(<<"Y">>)

\* C5: there is an escape sequence such that a slot right after it is
\* emitted as the text of the slot, unexpanded and with its content
\* untouched.  Stated for the text that puts the same slot after each of
\* Prefixes, one per line: some line of the output holds the slot unexpanded.
C5_Escape ==
    (call.op = "evaluate_string" /\ Finished /\ call.data = PrefixedSlots) =>
        /\ outcome.status = "returned"
        /\ \E j \in 1..Len(Prefixes) :
              /\ j <= Len(split(outcome.value, "\n"))
              /\ split(outcome.value, "\n")[j] \in
                    { Slot(Quoted("'", <<"X">>)),
                      Prefixes[j] \o Slot(Quoted("'", <<"X">>)) }

\* The one slot of the text is "pyproject", or "pyproject." and a path of
\* segments none of which is empty.
C7_Path == SubSeq(SlotContent, 3, Len(SlotContent))

IsLookup ==
    /\ call.op = "evaluate_string" /\ IsOneSlot
    /\ SlotContent[1] = "pyproject"
    /\ \/ Len(SlotContent) = 1
       \/ /\ Len(SlotContent) >= 3
          /\ SlotContent[2] = "."
          /\ \A k \in 1..Len(split(C7_Path, ".")) : split(C7_Path, ".")[k] # <<>>

IsPathSlot ==
    /\ call.op = "evaluate_string" /\ IsOneSlot
    /\ SlotContent[1] \notin Quotes
    /\ \E i \in 1..Len(SlotContent) : SlotContent[i] = "/"

\* The file C9 has the slot name: the path below the root when it leads with
\* "/", below the directory of the location otherwise.
C9_Target ==
    IF SlotContent[1] = "/"
    THEN realpath(Root \o split(Tail(SlotContent), "/"))
    ELSE realpath(SubSeq(call.location[1], 1, Len(call.location[1]) - 1)
                  \o split(SlotContent, "/"))

\* What the inclusion of a file of DefaultFileSystem may leave in the place
\* of the slot: the file's content, as it is or evaluated.
C9_Included(file) ==
    CASE file = FileDB -> { fs[file], <<"D">> }
      [] OTHER -> { fs[file], <<"Z">> }

\* C9: in a file-inclusion slot a path that leads with "/" is resolved
\* against the root and every other path that holds "/" against the
\* directory of the including file's location; with no location, a relative
\* inclusion fails with the error for relative paths.  Stated for
\* DefaultFileSystem, whose files in the root and in the directory d differ.
C9_Resolution ==
    (IsPathSlot /\ Finished /\ fs = DefaultFileSystem /\ exclude = <<>>) =>
        IF SlotContent[1] # "/" /\ call.location = None
        THEN /\ outcome.status = "raised"
             /\ outcome.exc.msg = "Relative paths are not permitted in this context"
        ELSE IF C9_Target \in DOMAIN fs
        THEN outcome.status = "returned" /\ outcome.value \in C9_Included(C9_Target)
        ELSE outcome.status = "raised" /\ outcome.exc.msg = "No such file"

\* The one slot of the text is a file inclusion of an existing file.
IsInclusion ==
    /\ call.op = "evaluate_string" /\ IsOneSlot
    /\ file_pattern(SlotContent)
    /\ file_construct_path(SlotContent, EvaluationContext(call.location)) # None
    /\ isfile(file_construct_path(SlotContent, EvaluationContext(call.location))[1])

\* The file it includes.
IncludedFile ==
    lookup(<<>>, file_construct_path(SlotContent, EvaluationContext(call.location))[1])[1]

\* The file is one the configuration has the engine process.
Processed(file) ==
    /\ \E k \in 1..Len(include) : pattern_matches(relative(file, Root), include[k])
    /\ \A k \in 1..Len(exclude) : ~pattern_matches(relative(file, Root), exclude[k])

\* C10 as the specification states it: the slot is replaced by the evaluated
\* content of the file whatever the file's name, never by its content as is.
C10_Original ==
    (IsInclusion /\ Finished /\ fs[IncludedFile] = LineZ) =>
        outcome = Returned(<<"Z">>)

\* C10: a file-inclusion slot that names an existing file is replaced by
\* the file's content evaluated, with the file's path as the location, when
\* the file is one should_process accepts, and by the file's content as it
\* is otherwise.
C10_Inclusion ==
    /\ (IsInclusion /\ Finished /\ fs[IncludedFile] = LineZ) =>
           outcome = Returned(IF Processed(IncludedFile) THEN <<"Z">> ELSE LineZ)
    /\ (/\ IsInclusion /\ Finished /\ IncludedFile = FileDB /\ Processed(FileDB)
        /\ fs[FileDB] = <<"x">> \o NL \o Slot(<<".", "/", ".", ".", "/">> \o b_py)
        /\ fs[FileB] = LineZ) =>
           outcome = Returned(<<"x", "\n", "Z">>)
    /\ \A k \in 2..Len(stack) :
           (stack[k].kind = "eval" /\ stack[k - 1].kind = "sub") =>
               /\ stack[k].ctx.location # None
               /\ (Root \o stack[k].ctx.location[1]) \in DOMAIN fs
               /\ stack[k].lines = split(fs[Root \o stack[k].ctx.location[1]], "\n")

\* a.py holds ${./b.py}, b.py holds ${'Z'}: the slot evaluated with a.py as
\* the location came out as Z.
C10_Witness ==
    /\ call.op = "evaluate_string"
    /\ call.data = Slot(<<".", "/">> \o b_py)
    /\ call.location = Some(FileA)
    /\ fs[FileB] = LineZ
    /\ outcome = Returned(<<"Z">>)

\* The call evaluates a.py, whose inclusions come back to a.py: a.py
\* includes itself, or includes b.py which includes a.py, both files being
\* ones the engine processes.
C11_Cyclic ==
    /\ call.op = "evaluate_string"
    /\ call.data = Slot(<<".", "/">> \o a_py)
    /\ call.location = Some(FileA)
    /\ Processed(FileA)
    /\ \/ fs[FileA] = Slot(<<".", "/">> \o a_py)
       \/ /\ fs[FileA] = Slot(<<".", "/">> \o b_py)
          /\ fs[FileB] = Slot(<<".", "/">> \o a_py)
          /\ Processed(FileB)

\* C11: the evaluation of a file whose inclusions form a cycle ends with an
\* error that reports the cycle; it is not the exhaustion of the
\* interpreter's recursion that ends it.
C11_CycleError ==
    (C11_Cyclic /\ Finished) =>
        /\ outcome.status = "raised"
        /\ outcome.exc.cause # "RecursionError"

\* C12: a file once marked processed is not evaluated a second time in the
\* session: no file is under evaluation in two activations at once.
C12_Processed ==
    \A j \in 1..Len(stack), k \in 1..Len(stack) :
        (/\ j < k
         /\ stack[j].kind = "eval" /\ stack[k].kind = "eval"
         /\ stack[j].ctx.location # None)
            => stack[j].ctx.location # stack[k].ctx.location

\* The files the configuration has the engine process.
ProcessedFiles == { f \in DOMAIN fs : Processed(f) }

\* C13: an evaluate_and_replace in which no evaluation fails returns the
\* number of files under the root that should_process accepts, has
\* rewritten those (a file that held ${'Z'} holds Z, one that held ${'D'}
\* holds D) and has left the content of every other file as it was.
C13_Replace ==
    (call.op = "evaluate_and_replace" /\ outcome.status = "returned") =>
        /\ outcome.value = Cardinality(ProcessedFiles)
        /\ \A f \in DOMAIN fs \ ProcessedFiles : fs[f] = call.before[f]
        /\ \A f \in ProcessedFiles :
              /\ call.before[f] = LineZ => fs[f] = <<"Z">>
              /\ call.before[f] = Slot(Quoted("'", <<"D">>)) => fs[f] = <<"D">>

\* With b.py excluded, the pass returned 1, rewrote a.py and left b.py.
C13_Witness ==
    /\ call.op = "evaluate_and_replace"
    /\ exclude # <<>>
    /\ call.before[FileA] = Slot(Quoted("'", <<"A">>)) \o NL
    /\ call.before[FileB] = LineZ
    /\ outcome = Returned(1)
    /\ fs[FileA] = <<"A">> \o NL
    /\ fs[FileB] = LineZ

\* The most recent directive among the first n of these lines is "off".
OffAfter(lines, n) == LastDirectiveOff(lines, n)

\* The lines from the k-th on that evaluate_string keeps of a text none of
\* whose kept lines holds a slot, as C6 states it.
RECURSIVE KeptLines(_, _)
KeptLines(lines, k) ==
    IF k > Len(lines) THEN <<>>
    ELSE IF IsDirective(lines[k]) \/ (~OffAfter(lines, k - 1) /\ HasDeleteMarker(lines[k]))
    THEN KeptLines(lines, k + 1)
    ELSE <<lines[k]>> \o KeptLines(lines, k + 1)

SlotFree(text) ==
    LET lines == split(text, "\n")
    IN  \A k \in 1..Len(lines) :
            (~OffAfter(lines, k - 1) /\ ~IsDirective(lines[k]) /\ ~HasDeleteMarker(lines[k]))
                => RE_TEMPLATE_SLOT_search(lines[k]) = None

\* What evaluate_string returns for such a text.
StringPath(text) == join(KeptLines(split(text, "\n"), 1), <<"\n">>)

\* evaluate_string does return it.
StringPathAgrees ==
    (call.op = "evaluate_string" /\ Finished /\ SlotFree(call.data)) =>
        outcome = Returned(StringPath(call.data))

\* C14: every file evaluate_and_replace has rewritten holds the text that
\* evaluate_string returns for the content the file had before, whatever
\* its last line is and with or without a line break at its end.  Stated
\* for the files none of whose kept lines holds a slot.
C14_SameText ==
    (call.op = "evaluate_and_replace" /\ outcome.status = "returned") =>
        \A f \in ProcessedFiles :
            SlotFree(call.before[f]) => fs[f] = StringPath(call.before[f])

\* The step in which evaluate_and_replace ends with an exception, and the
\* steps after it.
C15_Step ==
    /\ (call.op = "evaluate_and_replace" /\ outcome = Pending
        /\ outcome'.status = "raised") =>
           /\ exc # None /\ outcome'.exc = exc[1]
           /\ fs' = fs
           /\ stack[1].kind = "eval" /\ stack[1].mode = "file"
           /\ fs[stack[1].path] = call.before[stack[1].path]
           /\ \A f \in todo : fs[f] = call.before[f]
           /\ \A f \in ProcessedFiles \ (todo \cup {stack[1].path}) :
                 /\ call.before[f] = LineZ => fs[f] = <<"Z">>
                 /\ call.before[f] = Slot(Quoted("'", <<"A">>)) \o NL
                        => fs[f] = <<"A">> \o NL
    /\ (call.op = "evaluate_and_replace" /\ outcome.status = "raised") =>
           UNCHANGED vars

\* C15: when the evaluation of a file fails, evaluate_and_replace ends at
\* once with that error; the files rewritten before keep their new content,
\* the failing file keeps the content it had, and the files the walk has not
\* reached are untouched.
C15_Abort == [][C15_Step]_vars

\* a.py was rewritten, then b.py failed: a.py holds its new text, b.py and
\* d/b.py what they held.
C15_Witness ==
    /\ call.op = "evaluate_and_replace"
    /\ outcome.status = "raised"
    /\ call.before[FileA] = Slot(Quoted("'", <<"A">>)) \o NL
    /\ fs[FileA] = <<"A">> \o NL
    /\ call.before[FileB] = Slot(<<"pyproject", ".", "tool", ".", "m">>)
    /\ fs[FileB] = call.before[FileB]
    /\ FileDB \in todo
    /\ fs[FileDB] = call.before[FileDB]

\* The text is one line that is no directive.
IsOneLine ==
    call.op = "evaluate_string" /\ Len(Lines) = 1 /\ ~IsDirective(call.data)

\* Some construct's pattern matches the content.
Matches(content) ==
    \E k \in 1..Len(constructs) : construct_pattern(constructs[k], content)

\* The call ended with the error for a slot no construct takes.
UnknownConstruct ==
    /\ outcome.status = "raised"
    /\ outcome.exc.type = "EvaluationError"
    /\ outcome.exc.msg = "Unknown Construct"
    /\ outcome.exc.cause = ""

\* The line holds "${}".
HasEmptySlot(data) ==
    \E i \in 1..(Len(data) - 2) : SubSeq(data, i, i + 2) = <<"$", "{", "}">>

FailingLookup == Slot(<<"pyproject", ".", "tool", ".", "m">>)

\* The lines of the text on which such a lookup is evaluated.
LookupLines ==
    { k \in 1..Len(Lines) :
        /\ EnabledAt(k) /\ ~IsDirective(Lines[k]) /\ ~HasDeleteMarker(Lines[k])
        /\ RE_TEMPLATE_SLOT_search(Lines[k]) # None
        /\ RE_TEMPLATE_SLOT_search(Lines[k])[1].content
               = <<"pyproject", ".", "tool", ".", "m">> }

\* The location a context made for the call holds.
CallLocation ==
    IF call.location = None THEN None ELSE Some(relative(call.location[1], Root))

\* C17: an exception of a handler that is no EvaluationError reaches the
\* caller as an EvaluationError with the location and the line counter of
\* the context the slot was evaluated in and the exception as its cause; an
\* EvaluationError raised in an included file reaches the caller as it was
\* raised, with the included file's location and line.
C17_Wrapping ==
    /\ (call.op = "evaluate_string" /\ outcome.status = "raised") =>
           outcome.exc.type = "EvaluationError"
    /\ (call.op = "evaluate_string" /\ Finished /\ LookupLines # {}) =>
           /\ outcome.status = "raised"
           /\ outcome.exc.cause = "KeyError"
           /\ outcome.exc.msg = "does not exist"
           /\ outcome.exc.location = CallLocation
           /\ outcome.exc.line = Min(LookupLines) - 1
    /\ (/\ IsInclusion /\ Finished /\ Processed(IncludedFile)
        /\ fs[IncludedFile] = <<"x">> \o NL \o FailingLookup) =>
           /\ outcome.status = "raised"
           /\ outcome.exc.cause = "KeyError"
           /\ outcome.exc.location = Some(relative(IncludedFile, Root))
           /\ outcome.exc.line = 1

\* The lookup failed on the second line of b.py, included from a.py: the
\* error names b.py and its line.
C17_Witness ==
    /\ call.op = "evaluate_string"
    /\ call.data = Slot(<<".", "/">> \o b_py)
    /\ call.location = Some(FileA)
    /\ fs[FileB] = <<"x">> \o NL \o FailingLookup
    /\ outcome.status = "raised"
    /\ outcome.exc.type = "EvaluationError"
    /\ outcome.exc.cause = "KeyError"
    /\ outcome.exc.location = Some(<<b_py>>)
    /\ outcome.exc.line = 1


\* C18: once m.restore() has run right after m.inject(), and once a
\* `with m:` block has been left, whatever was entered and left inside it,
\* the attribute holds what it held when the inject or the block was reached.
C18_Restore ==
    call.op = "Mixin" =>
        \A i \in 1..Len(stack) :
            stack[i].pc = "done" => heap.attr = stack[i].before


\* The line ${'a'} ${'b'}: two slots with a blank between them.
TwoSlots == Slot(Quoted("'", <<"a">>)) \o <<" ">> \o Slot(Quoted("'", <<"b">>))

\* C19: on an enabled line with several slots each slot is substituted by
\* itself, left to right, and the text around them is kept: the one-line text
\* ${'a'} ${'b'}, with or without text before it, evaluates to a b after
\* that text.
C19_Slots ==
    \A pre \in {<<>>, <<"!">>, <<"x", " ">>} :
        (call.op = "evaluate_string" /\ call.data = pre \o TwoSlots /\ Finished) =>
            outcome = Returned(pre \o <<"a", " ", "b">>)


\* The loops over lines in progress.
EvalFrames == { k \in 1..Len(stack) : stack[k].kind = "eval" }

\* The text holds no "/", so no slot of it, or of what a slot of it
\* evaluates to, includes a file.
NoInclusionSlot == \A j \in 1..Len(call.data) : call.data[j] # "/"

\* The k-th line of the text is one whose slot is substituted.
SubstitutedLine(k) ==
    /\ k \in 1..Len(Lines)
    /\ EnabledAt(k) /\ ~IsDirective(Lines[k]) /\ ~HasDeleteMarker(Lines[k])
    /\ RE_TEMPLATE_SLOT_search(Lines[k]) # None

\* C20 as the specification states it: the counter counts from 1, so it is
\* k while the k-th line is evaluated and an error on that line reports k.
C20_Original ==
    /\ \A k \in EvalFrames : stack[k].i >= 1 => stack[k].ctx.line = stack[k].i
    /\ (/\ call.op = "evaluate_string" /\ NoInclusionSlot
        /\ outcome.status = "raised") =>
           SubstitutedLine(outcome.exc.line)

\* C20: the counter counts from 0 and advances by one for every line
\* consumed, whatever the line is: it is k - 1 while the k-th line is
\* evaluated (and -1 before the first), and an error raised on the k-th line
\* reports line k - 1.
C20_LineCounter ==
    /\ \A k \in EvalFrames : stack[k].ctx.line = stack[k].i - 1
    /\ (/\ call.op = "evaluate_string" /\ NoInclusionSlot
        /\ outcome.status = "raised") =>
           SubstitutedLine(outcome.exc.line + 1)
    /\ (call.op = "evaluate_string" /\ call.data = CountedLines /\ Finished) =>
           outcome.status = "raised" /\ outcome.exc.line = 4

\* An unknown construct on the fifth line, after an off directive, a line
\* kept as it is, an on directive and a delete-marked line: line 4.
C20_Witness ==
    /\ call.op = "evaluate_string"
    /\ call.data = CountedLines
    /\ outcome.status = "raised"
    /\ outcome.exc.msg = "Unknown Construct"
    /\ outcome.exc.line = 4


\* The loop over lines in which the slot that made the k-th activation is
\* evaluated.
Includer(k) == Max({ j \in EvalFrames : j < k })

\* The location of the k-th activation's own text.
OwnLocation(k) ==
    IF k > 1
    THEN Some(relative(file_construct_path(stack[k - 1].content,
                                           stack[Includer(k)].ctx)[1], Root))
    ELSE IF call.op = "evaluate_string" THEN CallLocation
    ELSE Some(relative(stack[k].path, Root))

\* C21: an included file is evaluated with a context of its own, and the
\* includer's context is what it was when the inclusion returns: in every
\* loop over lines in progress, the includers too, the enabled flag is set
\* by the directives among the lines that loop has consumed, the counter
\* by their number and the location is that of the loop's own text; so an
\* included file starts enabled at -1, and a.py with an inclusion of b.py
\* and ${'Z'} on the next line, b.py being an off directive and ${'Z'},
\* gives ${'Z'} for b.py and Z for the line after the inclusion.
C21_FreshContext ==
    /\ \A k \in EvalFrames :
          /\ stack[k].ctx.enabled <=> ~LastDirectiveOff(stack[k].lines, stack[k].i)
          /\ stack[k].ctx.line = stack[k].i - 1
          /\ (k > 1 /\ stack[k].i = 0) =>
                 stack[k].ctx.enabled /\ stack[k].ctx.line = 0 - 1
          /\ k > 1 => stack[k - 1].kind = "sub"
          /\ stack[k].ctx.location = OwnLocation(k)
    /\ (/\ call.op = "evaluate_string" /\ call.data = AfterInclusion
        /\ call.location = Some(FileA) /\ Processed(FileB)
        /\ fs[FileB] = LineOff \o NL \o LineZ /\ Finished) =>
           outcome = Returned(LineZ \o NL \o <<"Z">>)

\* The includer goes on enabled after an included file that ends disabled.
C21_Witness ==
    /\ call.op = "evaluate_string"
    /\ call.data = AfterInclusion
    /\ call.location = Some(FileA)
    /\ fs[FileB] = LineOff \o NL \o LineZ
    /\ outcome = Returned(LineZ \o NL \o <<"Z">>)


\* The call is an evaluate_and_replace that has returned, over a tree in
\* which a.py was an inclusion of b.py and both are files to process.
IncluderAndIncluded ==
    /\ call.op = "evaluate_and_replace"
    /\ outcome.status = "returned"
    /\ call.before[FileA] = Slot(<<".", "/">> \o b_py)
    /\ Processed(FileA) /\ Processed(FileB)

\* C22: after a successful evaluate_and_replace every file holds the same
\* text whatever the order of the walk: a.py, an inclusion of b.py, ends as
\* what the inclusion gives for b.py as it was before the pass, whether or
\* not b.py was rewritten before a.py was visited: Z when b.py was ${'Z'},
\* and ${'Z'} when b.py was an off directive followed by ${'Z'}.
C22_WalkOrder ==
    IncluderAndIncluded =>
        /\ call.before[FileB] = LineZ => fs[FileA] = <<"Z">>
        /\ call.before[FileB] = LineOff \o NL \o LineZ => fs[FileA] = LineZ

====
